---------------------------- MODULE Spec2Model ----------------------------
(***************************************************************************)
(* EcoOyster backend (src/app.py): the production estimator, the           *)
(* recommendation text parser, the lazily created provider client and the  *)
(* /api/predict request handler.                                           *)
(*                                                                         *)
(* Text is a sequence of one-character strings.  Numbers are fixed point:  *)
(* a salinity or a JSON number is held in hundredths, a production value   *)
(* in units of 10^-5 metric tons, so that the linear formula is exact.     *)
(***************************************************************************)
EXTENDS Integers, Sequences, FiniteSets, TLC

VARIABLES
    \* ---- parse_ai_recommendations, applied to one input text
    raw_response,       \* the argument
    start_found,        \* the scan's flag after the loop (line 124/131)
    parsed,             \* parse_ai_recommendations(raw_response)
    reparsed,           \* parse_ai_recommendations(parsed)
    ppc,                \* "input" -> "parsed" -> "reparsed"
    \* ---- calculate_oyster_production, applied to one argument list
    est_args,           \* [salinity, farming_technique, typhoon, flood]
    production,         \* the value returned by the last call
    technique_name,     \* get_farming_technique_name(farming_technique)
    est_calls,          \* calls made so far
    \* ---- the server: module state and, per request thread, predict's frame
    _client,            \* the module global of line 47: 0 is None, else an object
    constructed,        \* Together objects constructed so far (object identities)
    pc,                 \* where each thread is in predict / get_ai_recommendations
    data,               \* request.get_json()
    predicted_production,
    prompt,             \* what lines 186-235 put into the prompt
    new_client,         \* the object built at line 55, before it is stored
    client,             \* the local of line 238
    exc,                \* the exception caught at line 255, if any
    recommendations,
    response,           \* what predict returns
    calls               \* the steps taken for the request, in order

pvars == <<raw_response, start_found, parsed, reparsed, ppc>>
evars == <<est_args, production, technique_name, est_calls>>
hvars == <<_client, constructed, pc, data, predicted_production, prompt,
           new_client, client, exc, recommendations, response, calls>>
vars == <<pvars, evars, hvars>>

(***************************************************************************)
(* Characters.  U+2022, the bullet glyph, is written "u2022".              *)
(***************************************************************************)
NL == "\n"
BulletGlyph == "u2022"
Whitespace == {" ", NL, "\t"}

\* a value that is no text: a variable not yet assigned
Unset == <<"<unset>">>

(***************************************************************************)
(* str.strip(), str.split('\n'), '\n'.join(...)                            *)
(***************************************************************************)
RECURSIVE LStrip(_)
LStrip(s) ==
    IF s = <<>> THEN <<>>
    ELSE IF Head(s) \in Whitespace THEN LStrip(Tail(s))
    ELSE s

RECURSIVE RStrip(_)
RStrip(s) ==
    IF s = <<>> THEN <<>>
    ELSE IF s[Len(s)] \in Whitespace THEN RStrip(SubSeq(s, 1, Len(s) - 1))
    ELSE s

Strip(s) == RStrip(LStrip(s))

RECURSIVE SplitFrom(_, _, _)
SplitFrom(s, i, cur) ==
    IF i > Len(s) THEN <<cur>>
    ELSE IF s[i] = NL THEN <<cur>> \o SplitFrom(s, i + 1, <<>>)
    ELSE SplitFrom(s, i + 1, Append(cur, s[i]))

Split(s) == SplitFrom(s, 1, <<>>)

RECURSIVE Join(_)
Join(ls) ==
    IF ls = <<>> THEN <<>>
    ELSE IF Len(ls) = 1 THEN ls[1]
    ELSE ls[1] \o <<NL>> \o Join(Tail(ls))

(***************************************************************************)
(* The regular expressions of parse_ai_recommendations.                    *)
(***************************************************************************)
\* re.match(r'^\*\*.*\*\*$', s): "." matches no newline, "$" matches at the
\* end and before a final newline.
MatchBold(s) ==
    \E e \in {Len(s)} \cup (IF s # <<>> /\ s[Len(s)] = NL THEN {Len(s) - 1} ELSE {}) :
        /\ e >= 4
        /\ s[1] = "*" /\ s[2] = "*"
        /\ s[e - 1] = "*" /\ s[e] = "*"
        /\ \A i \in 3..(e - 2) : s[i] # NL

\* re.match(r'^#+\s+', s)
MatchHash(s) ==
    /\ s # <<>> /\ s[1] = "#"
    /\ \E k \in 2..Len(s) :
          /\ \A i \in 1..(k - 1) : s[i] = "#"
          /\ s[k] \in Whitespace

\* re.match(r'^[•\-\*]\s+', s)
MatchBullet(s) ==
    /\ Len(s) >= 2
    /\ s[1] \in {BulletGlyph, "-", "*"}
    /\ s[2] \in Whitespace

\* line 130 (and 144): the category header test on the stripped line
IsHeader(line_stripped) == MatchBold(line_stripped) \/ MatchHash(line_stripped)

\* category_pattern, first alternative \*\*[^*]+\*\* matched at position i:
\* [^*]+ takes every character up to the next "*", newlines included.
BoldAt(s, i) ==
    /\ i + 4 <= Len(s)
    /\ s[i] = "*" /\ s[i + 1] = "*" /\ s[i + 2] # "*"
    /\ \E j \in (i + 3)..(Len(s) - 1) :
          /\ \A m \in (i + 2)..(j - 1) : s[m] # "*"
          /\ s[j] = "*" /\ s[j + 1] = "*"

\* category_pattern, second alternative #+\s+[^\n]+ matched at position i:
\* the run of "#", then whitespace, then one character that is no newline.
HashAt(s, i) ==
    /\ i <= Len(s) /\ s[i] = "#"
    /\ \E k \in (i + 1)..Len(s) : \E e \in (k + 1)..Len(s) :
          /\ \A m \in i..(k - 1) : s[m] = "#"
          /\ \A m \in k..(e - 1) : s[m] \in Whitespace
          /\ s[e] # NL

PatternAt(s, i) == BoldAt(s, i) \/ HashAt(s, i)

\* re.finditer(category_pattern, raw_response): the start positions
MatchStarts(s) == {i \in 1..Len(s) : PatternAt(s, i)}

Min(S) == CHOOSE x \in S : \A y \in S : x <= y

(***************************************************************************)
(* parse_ai_recommendations, lines 122-158.                                *)
(***************************************************************************)
\* KeptAfterStart without the filter: every line after the start is kept
KeptAfterStartAll(line) == TRUE

\* lines 136-145: what is appended once start_found is set
KeptAfterStart(line) ==
    LET line_stripped == Strip(line)
    IN  \/ line_stripped = <<>>
        \/ MatchBullet(line_stripped)
        \/ IsHeader(line_stripped)

\* ScanLines with the append of line 132 left out for the first header
RECURSIVE ScanLinesDropFirst(_, _, _, _)
ScanLinesDropFirst(lines, i, found, recs) ==
    IF i > Len(lines) THEN [start_found |-> found, recommendations |-> recs]
    ELSE IF IsHeader(Strip(lines[i]))
         THEN ScanLinesDropFirst(lines, i + 1, TRUE,
                  IF found THEN Append(recs, lines[i]) ELSE recs)
    ELSE IF found /\ (Strip(lines[i]) = <<>> \/ MatchBullet(Strip(lines[i])))
         THEN ScanLinesDropFirst(lines, i + 1, found, Append(recs, lines[i]))
    ELSE ScanLinesDropFirst(lines, i + 1, found, recs)

\* lines 126-145: the loop over the lines; the result is
\* [start_found, recommendations]
RECURSIVE ScanLines(_, _, _, _)
ScanLines(lines, i, found, recs) ==
    IF i > Len(lines) THEN [start_found |-> found, recommendations |-> recs]
    ELSE IF IsHeader(Strip(lines[i]))
         THEN ScanLines(lines, i + 1, TRUE, Append(recs, lines[i]))
    ELSE IF found /\ KeptAfterStart(lines[i])
         THEN ScanLines(lines, i + 1, found, Append(recs, lines[i]))
    ELSE ScanLines(lines, i + 1, found, recs)

Scan(raw) == ScanLines(Split(raw), 1, FALSE, <<>>)

\* Fallback without the strip() of lines 154 and 156
FallbackNoStrip(raw) ==
    IF MatchStarts(raw) # {}
    THEN SubSeq(raw, Min(MatchStarts(raw)), Len(raw))
    ELSE raw

\* lines 148-156: no header line was found
Fallback(raw) ==
    IF MatchStarts(raw) # {}
    THEN Strip(SubSeq(raw, Min(MatchStarts(raw)), Len(raw)))
    ELSE Strip(raw)

parse_ai_recommendations(raw) ==
    LET r == Scan(raw)
    IN  IF ~r.start_found THEN Fallback(raw)
        ELSE Strip(Join(r.recommendations))

(***************************************************************************)
(* The input texts: every text of at most MaxLen characters over Alphabet, *)
(* every text of at most MaxLines lines taken from LinePool, and the       *)
(* example of the documentation.                                           *)
(***************************************************************************)
MaxLen == 5
MaxLines == 3

Alphabet == {"*", "#", "-", " ", NL, "a"}

RECURSIVE Texts(_)
Texts(n) ==
    IF n = 0 THEN {<<>>}
    ELSE LET shorter == Texts(n - 1)
         IN  shorter \cup {Append(s, c) : s \in {t \in shorter : Len(t) = n - 1}, c \in Alphabet}

LinePool ==
    { <<"*", "*", "T", "*", "*">>,                                   \* **T**
      <<" ", "#", " ", "T">>,                                        \* " # T"
      <<BulletGlyph, " ", "x">>,                                     \* bullet
      <<"-", " ", "y", " ">>,                                        \* "- y "
      <<"t", "e", "x", "t">>,                                        \* narrative
      <<>>,                                                          \* blank
      <<" ">>,
      <<"a", " ", "*", "*", "b", "*", "*", " ", "c">>,               \* a **b** c
      <<"*", "*", "A", "*", "*", " ", "x", " ", "*", "*", "B", "*", "*">>,  \* **A** x **B**
      <<"x", " ", "#", " ", "T">> }                                  \* x # T

RECURSIVE LineSeqs(_)
LineSeqs(n) ==
    IF n = 0 THEN {<<>>}
    ELSE LET shorter == LineSeqs(n - 1)
         IN  shorter \cup {Append(ls, l) : ls \in {t \in shorter : Len(t) = n - 1}, l \in LinePool}

ExampleInput ==
    Join(<< <<"O","k","a","y"," ","l","e","t"," ","m","e"," ","t","h","i","n","k",".">>,
            <<"*","*","F","a","r","m","i","n","g"," ","T","e","c","h","n","i","q","u","e"," ",
              "O","p","t","i","m","i","z","a","t","i","o","n","*","*">>,
            <<BulletGlyph," ","D","o"," ","X">>,
            <<"S","o","m","e"," ","s","t","r","a","y"," ","s","e","n","t","e","n","c","e",".">>,
            <<BulletGlyph," ","D","o"," ","Y">> >>)

ExampleOutput ==
    Join(<< <<"*","*","F","a","r","m","i","n","g"," ","T","e","c","h","n","i","q","u","e"," ",
              "O","p","t","i","m","i","z","a","t","i","o","n","*","*">>,
            <<BulletGlyph," ","D","o"," ","X">>,
            <<BulletGlyph," ","D","o"," ","Y">> >>)

Inputs ==
    Texts(MaxLen) \cup {Join(ls) : ls \in LineSeqs(MaxLines)} \cup {ExampleInput}

(***************************************************************************)
(* calculate_oyster_production, lines 68-84.  The coefficients of line 82  *)
(* in thousandths; salinity in hundredths; the result in units of 10^-5.   *)
(***************************************************************************)
CoefSalinity == 268
CoefTechnique == 567
CoefTyphoon == 436
CoefFlood == 223
Intercept == 4595

\* line 82
LinearProduction(salinity, farming_technique, typhoon, flood) ==
    CoefSalinity * salinity
      + 100 * (CoefTechnique * farming_technique + CoefTyphoon * typhoon + CoefFlood * flood)
      - 100 * Intercept

\* the estimator with the technique code gated by the label table
calculate_known_codes(salinity, farming_technique, typhoon, flood) ==
    LET code == IF farming_technique \in {1, 2, 3} THEN farming_technique ELSE 0
        p == LinearProduction(salinity, code, typhoon, flood)
    IN  IF p > 0 THEN p ELSE 0

calculate_oyster_production(salinity, farming_technique, typhoon, flood) ==
    LET p == LinearProduction(salinity, farming_technique, typhoon, flood)
    IN  IF p > 0 THEN p ELSE 0

\* lines 86-101
get_farming_technique_name(technique_code) ==
    CASE technique_code = 1 -> "Raft method"
      [] technique_code = 2 -> "Stake method"
      [] technique_code = 3 -> "Both Raft and Stake"
      [] OTHER -> "Unknown"

(***************************************************************************)
(* JSON values of a request body, and Python's None.  A number is held in  *)
(* hundredths.  A body is None or an object over Keys; a key that the      *)
(* object does not hold is "absent".                                       *)
(***************************************************************************)
Absent == [k |-> "absent", n |-> 0, s |-> ""]
JNull == [k |-> "null", n |-> 0, s |-> ""]
Num(x) == [k |-> "num", n |-> x, s |-> ""]
Str(x) == [k |-> "str", n |-> 0, s |-> x]
PyNone == [k |-> "None", n |-> 0, s |-> ""]

Required == {"salinity", "farming_technique", "typhoon", "flood"}
Keys == Required \cup {"temperature"}

NoBody ==
    [json |-> "none", salinity |-> Absent, farming_technique |-> Absent,
     typhoon |-> Absent, flood |-> Absent, temperature |-> Absent]

Object(sal, tech, ty, fl, temp) ==
    [json |-> "object", salinity |-> sal, farming_technique |-> tech,
     typhoon |-> ty, flood |-> fl, temperature |-> temp]

\* dict.get(key): None for a key the object lacks, and for a JSON null
DictGet(d, key) == IF d[key].k \in {"absent", "null"} THEN PyNone ELSE d[key]

\* "not data" with only the None body counted
NotDataNoneOnly(d) == d.json = "none"

\* line 293, "not data": None or an object without keys
NotData(d) == d.json = "none" \/ \A key \in Keys : d[key].k = "absent"

\* "not v" in place of "v is None": the number 0 counts as missing
IsNoneOrZero(v) == v = PyNone \/ (v.k = "num" /\ v.n = 0)

\* lines 301-302, "v is None"
IsNone(v) == v = PyNone

(***************************************************************************)
(* float(v) and int(v) of lines 307-310: [ok, v, err].  float's value is   *)
(* in hundredths, int's is an integer.                                     *)
(***************************************************************************)
FloatOfString == ("2" :> 200) @@ ("1.5" :> 150)
IntOfString == ("2" :> 2)

Truncate(n) == IF n >= 0 THEN n \div 100 ELSE -((-n) \div 100)

Converted(x) == [ok |-> TRUE, v |-> x, err |-> <<>>]
Raised(msg) == [ok |-> FALSE, v |-> 0, err |-> msg]

py_float(v) ==
    CASE v.k = "num" -> Converted(v.n)
      [] v.k = "str" ->
            IF v.s \in DOMAIN FloatOfString THEN Converted(FloatOfString[v.s])
            ELSE Raised(<<"could not convert string to float: '", v.s, "'">>)
      [] OTHER ->
            Raised(<<"float() argument must be a string or a real number, not 'NoneType'">>)

\* int(v) that turns what it cannot read into 0
py_int_lenient(v) ==
    CASE v.k = "num" -> Converted(Truncate(v.n))
      [] v.k = "str" ->
            IF v.s \in DOMAIN IntOfString THEN Converted(IntOfString[v.s])
            ELSE Converted(0)
      [] OTHER -> Converted(0)

py_int(v) ==
    CASE v.k = "num" -> Converted(Truncate(v.n))
      [] v.k = "str" ->
            IF v.s \in DOMAIN IntOfString THEN Converted(IntOfString[v.s])
            ELSE Raised(<<"invalid literal for int() with base 10: '", v.s, "'">>)
      [] OTHER ->
            Raised(<<"int() argument must be a string, a bytes-like object or a real number, not 'NoneType'">>)

\* lines 307-310 (and 315-318): the four conversions, left to right; the
\* first that raises ends the evaluation
CoerceArgs(d) ==
    LET a == py_float(DictGet(d, "salinity"))
        b == py_int(DictGet(d, "farming_technique"))
        c == py_int(DictGet(d, "typhoon"))
        e == py_int(DictGet(d, "flood"))
    IN  [ok |-> a.ok /\ b.ok /\ c.ok /\ e.ok,
         err |-> IF ~a.ok THEN a.err ELSE IF ~b.ok THEN b.err
                 ELSE IF ~c.ok THEN c.err ELSE e.err,
         salinity |-> a.v, farming_technique |-> b.v, typhoon |-> c.v, flood |-> e.v]

(***************************************************************************)
(* Responses of predict.                                                   *)
(***************************************************************************)
NoResponse ==
    [status |-> 0, error |-> <<>>, success |-> FALSE,
     predicted_production |-> -1, recommendations |-> Unset]

ErrorResponse(code, msg) ==
    [status |-> code, error |-> msg, success |-> FALSE,
     predicted_production |-> -1, recommendations |-> Unset]

SuccessResponse(p, r) ==
    [status |-> 200, error |-> <<>>, success |-> TRUE,
     predicted_production |-> p, recommendations |-> r]

\* the error string with the exception's message left out
ErrorTextGeneric(msg) == <<"Error generating recommendations">>

\* line 256
ErrorText(msg) == <<"Error generating recommendations: ">> \o msg

\* lines 187-188
EventText(n) == IF n = 1 THEN <<n, " event(s)">> ELSE <<n, " events">>

NoPrompt == [technique_name |-> "", typhoon_text |-> <<0, "">>, flood_text |-> <<0, "">>]

(***************************************************************************)
(* What the provider side can do: the import or the constructor of lines   *)
(* 54-55 raises or yields a client; the call of line 239 raises, or        *)
(* answers without choices, with a null content, or with a text.           *)
(***************************************************************************)
ConstructOutcomes ==
    { [ok |-> TRUE, err |-> <<>>],
      [ok |-> FALSE, err |-> <<"No module named 'together'">>] }

SampleCompletions ==
    { ExampleInput,
      <<" ", "*", "*", "T", "*", "*", NL, BulletGlyph, " ", "x", " ", NL>>,
      <<"t", "e", "x", "t">> }

ProviderOutcomes ==
    { [kind |-> "raise", err |-> <<"Request timed out.">>, content |-> <<>>],
      [kind |-> "no_choices", err |-> <<"list index out of range">>, content |-> <<>>],
      [kind |-> "null_content",
       err |-> <<"'NoneType' object has no attribute 'strip'">>, content |-> <<>>] }
    \cup { [kind |-> "ok", err |-> <<>>, content |-> c] : c \in SampleCompletions }

(***************************************************************************)
(* The server.  Each thread runs predict for one request at a time.        *)
(***************************************************************************)
NumThreads == 2
Threads == 1..NumThreads

HandlerIdle ==
    /\ _client = 0
    /\ constructed = 0
    /\ pc = [t \in Threads |-> "idle"]
    /\ data = [t \in Threads |-> NoBody]
    /\ predicted_production = [t \in Threads |-> -1]
    /\ prompt = [t \in Threads |-> NoPrompt]
    /\ new_client = [t \in Threads |-> 0]
    /\ client = [t \in Threads |-> 0]
    /\ exc = [t \in Threads |-> <<>>]
    /\ recommendations = [t \in Threads |-> Unset]
    /\ response = [t \in Threads |-> NoResponse]
    /\ calls = [t \in Threads |-> <<>>]

ParseIdle ==
    /\ raw_response = <<>>
    /\ start_found = FALSE
    /\ parsed = Unset
    /\ reparsed = Unset
    /\ ppc = "input"

EstIdle ==
    /\ est_args = [salinity |-> 0, farming_technique |-> 0, typhoon |-> 0, flood |-> 0]
    /\ production = -1
    /\ technique_name = ""
    /\ est_calls = 0

\* line 291: a request arrives and its body is read
Receive(t, body) ==
    /\ pc[t] = "idle"
    /\ data' = [data EXCEPT ![t] = body]
    /\ pc' = [pc EXCEPT ![t] = "validate"]
    /\ UNCHANGED <<_client, constructed, predicted_production, prompt, new_client,
                   client, exc, recommendations, response, calls>>
    /\ UNCHANGED <<pvars, evars>>

\* lines 293-303
Validate(t) ==
    /\ pc[t] = "validate"
    /\ calls' = [calls EXCEPT ![t] = Append(@, "validate")]
    /\ IF NotData(data[t])
       THEN /\ response' = [response EXCEPT ![t] =
                              ErrorResponse(400, <<"No data provided">>)]
            /\ pc' = [pc EXCEPT ![t] = "done"]
       ELSE IF \E key \in Required : IsNone(DictGet(data[t], key))
       THEN /\ response' = [response EXCEPT ![t] =
                              ErrorResponse(400, <<"Missing required fields">>)]
            /\ pc' = [pc EXCEPT ![t] = "done"]
       ELSE /\ pc' = [pc EXCEPT ![t] = "estimate"]
            /\ UNCHANGED response
    /\ UNCHANGED <<_client, constructed, data, predicted_production, prompt,
                   new_client, client, exc, recommendations>>
    /\ UNCHANGED <<pvars, evars>>

\* lines 306-311, and 329-330 when a conversion raises
Estimate(t) ==
    /\ pc[t] = "estimate"
    /\ LET a == CoerceArgs(data[t])
       IN  IF ~a.ok
           THEN /\ response' = [response EXCEPT ![t] = ErrorResponse(500, a.err)]
                /\ pc' = [pc EXCEPT ![t] = "done"]
                /\ UNCHANGED <<predicted_production, calls>>
           ELSE /\ predicted_production' = [predicted_production EXCEPT ![t] =
                       calculate_oyster_production(a.salinity, a.farming_technique,
                                                   a.typhoon, a.flood)]
                /\ calls' = [calls EXCEPT ![t] = Append(@, "estimate")]
                /\ pc' = [pc EXCEPT ![t] = "recommend"]
                /\ UNCHANGED response
    /\ UNCHANGED <<_client, constructed, data, prompt, new_client, client, exc,
                   recommendations>>
    /\ UNCHANGED <<pvars, evars>>

\* lines 314-320 and 186-235: the arguments are converted again and
\* get_ai_recommendations builds its prompt
Recommend(t) ==
    /\ pc[t] = "recommend"
    /\ LET a == CoerceArgs(data[t])
       IN  IF ~a.ok
           THEN /\ response' = [response EXCEPT ![t] = ErrorResponse(500, a.err)]
                /\ pc' = [pc EXCEPT ![t] = "done"]
                /\ UNCHANGED <<prompt, calls>>
           ELSE /\ prompt' = [prompt EXCEPT ![t] =
                       [technique_name |-> get_farming_technique_name(a.farming_technique),
                        typhoon_text |-> EventText(a.typhoon),
                        flood_text |-> EventText(a.flood)]]
                /\ calls' = [calls EXCEPT ![t] = Append(@, "recommend")]
                /\ pc' = [pc EXCEPT ![t] = "get_client"]
                /\ UNCHANGED response
    /\ UNCHANGED <<_client, constructed, data, predicted_production, new_client,
                   client, exc, recommendations>>
    /\ UNCHANGED <<pvars, evars>>

\* line 52: the test of the global
GetClientCheck(t) ==
    /\ pc[t] = "get_client"
    /\ pc' = [pc EXCEPT ![t] = IF _client = 0 THEN "construct" ELSE "return_client"]
    /\ UNCHANGED <<_client, constructed, data, predicted_production, prompt,
                   new_client, client, exc, recommendations, response, calls>>
    /\ UNCHANGED <<pvars, evars>>

\* lines 54-55, right-hand side: the import and the constructor; what they
\* raise is caught at line 255
Construct(t) ==
    /\ pc[t] = "construct"
    /\ \E o \in ConstructOutcomes :
          IF o.ok
          THEN /\ constructed' = constructed + 1
               /\ new_client' = [new_client EXCEPT ![t] = constructed + 1]
               /\ pc' = [pc EXCEPT ![t] = "store"]
               /\ UNCHANGED <<exc, recommendations>>
          ELSE /\ exc' = [exc EXCEPT ![t] = o.err]
               /\ recommendations' = [recommendations EXCEPT ![t] = ErrorText(o.err)]
               /\ pc' = [pc EXCEPT ![t] = "respond"]
               /\ UNCHANGED <<constructed, new_client>>
    /\ UNCHANGED <<_client, data, predicted_production, prompt, client, response, calls>>
    /\ UNCHANGED <<pvars, evars>>

\* line 55: the assignment to the global
Store(t) ==
    /\ pc[t] = "store"
    /\ _client' = new_client[t]
    /\ pc' = [pc EXCEPT ![t] = "return_client"]
    /\ UNCHANGED <<constructed, data, predicted_production, prompt, new_client,
                   client, exc, recommendations, response, calls>>
    /\ UNCHANGED <<pvars, evars>>

\* lines 56 and 238: the global is read and becomes the caller's client
ReturnClient(t) ==
    /\ pc[t] = "return_client"
    /\ client' = [client EXCEPT ![t] = _client]
    /\ pc' = [pc EXCEPT ![t] = "provider"]
    /\ UNCHANGED <<_client, constructed, data, predicted_production, prompt,
                   new_client, exc, recommendations, response, calls>>
    /\ UNCHANGED <<pvars, evars>>

\* lines 239-256: the provider is called, the text taken from its answer and
\* parsed; whatever is raised is caught and becomes the returned string
CallProvider(t) ==
    /\ pc[t] = "provider"
    /\ calls' = [calls EXCEPT ![t] = Append(@, "provider")]
    /\ \E o \in ProviderOutcomes :
          IF o.kind = "ok"
          THEN /\ recommendations' = [recommendations EXCEPT ![t] =
                      parse_ai_recommendations(Strip(o.content))]
               /\ UNCHANGED exc
          ELSE /\ exc' = [exc EXCEPT ![t] = o.err]
               /\ recommendations' = [recommendations EXCEPT ![t] = ErrorText(o.err)]
    /\ pc' = [pc EXCEPT ![t] = "respond"]
    /\ UNCHANGED <<_client, constructed, data, predicted_production, prompt,
                   new_client, client, response>>
    /\ UNCHANGED <<pvars, evars>>

\* lines 323-327
Respond(t) ==
    /\ pc[t] = "respond"
    /\ response' = [response EXCEPT ![t] =
                      SuccessResponse(predicted_production[t], recommendations[t])]
    /\ calls' = [calls EXCEPT ![t] = Append(@, "respond")]
    /\ pc' = [pc EXCEPT ![t] = "done"]
    /\ UNCHANGED <<_client, constructed, data, predicted_production, prompt,
                   new_client, client, exc, recommendations>>
    /\ UNCHANGED <<pvars, evars>>

\* predict has returned: the response is sent and the frame is gone
Finish(t) ==
    /\ pc[t] = "done"
    /\ pc' = [pc EXCEPT ![t] = "idle"]
    /\ data' = [data EXCEPT ![t] = NoBody]
    /\ predicted_production' = [predicted_production EXCEPT ![t] = -1]
    /\ prompt' = [prompt EXCEPT ![t] = NoPrompt]
    /\ new_client' = [new_client EXCEPT ![t] = 0]
    /\ client' = [client EXCEPT ![t] = 0]
    /\ exc' = [exc EXCEPT ![t] = <<>>]
    /\ recommendations' = [recommendations EXCEPT ![t] = Unset]
    /\ response' = [response EXCEPT ![t] = NoResponse]
    /\ calls' = [calls EXCEPT ![t] = <<>>]
    /\ UNCHANGED <<_client, constructed>>
    /\ UNCHANGED <<pvars, evars>>

(***************************************************************************)
(* Request bodies.                                                         *)
(***************************************************************************)
SalinityValues == {Absent, JNull, Num(0), Num(5000), Num(1502), Str("abc")}
TechniqueValues == {Absent, JNull, Num(0), Num(300), Num(450), Str("abc")}
TyphoonValues == {Absent, JNull, Num(0), Num(200), Str("2"), Str("1.5")}
FloodValues == {Absent, JNull, Num(0), Num(100), Num(-100), Str("abc")}
TemperatureValues == {Absent, Num(2800)}

Bodies ==
    {NoBody} \cup
    { Object(a, b, c, e, f) : a \in SalinityValues, b \in TechniqueValues,
                              c \in TyphoonValues, e \in FloodValues,
                              f \in TemperatureValues }

\* the bodies of the requests served concurrently
ConcBodies ==
    { NoBody,
      Object(Num(5000), Num(300), Num(200), Num(100), Absent),
      Object(Num(1502), Num(100), Num(0), Absent, Absent),
      Object(Str("abc"), Num(100), Num(0), Num(0), Absent) }

Init == HandlerIdle /\ ParseIdle /\ EstIdle

\* one request at a time
Next ==
    \/ \E body \in Bodies : Receive(1, body)
    \/ Validate(1)
    \/ Estimate(1)
    \/ Recommend(1)
    \/ GetClientCheck(1)
    \/ Construct(1)
    \/ Store(1)
    \/ ReturnClient(1)
    \/ CallProvider(1)
    \/ Respond(1)
    \/ Finish(1)

Spec == Init /\ [][Next]_vars

\* requests on NumThreads threads, interleaved step by step
NextConc ==
    \E t \in Threads :
        \/ \E body \in ConcBodies : Receive(t, body)
        \/ Validate(t)
        \/ Estimate(t)
        \/ Recommend(t)
        \/ GetClientCheck(t)
        \/ Construct(t)
        \/ Store(t)
        \/ ReturnClient(t)
        \/ CallProvider(t)
        \/ Respond(t)
        \/ Finish(t)

SpecConc == Init /\ [][NextConc]_vars

(***************************************************************************)
(* The parser applied to an input, and to its own output.                  *)
(***************************************************************************)
InitParse ==
    /\ raw_response \in Inputs
    /\ start_found = FALSE
    /\ parsed = Unset
    /\ reparsed = Unset
    /\ ppc = "input"
    /\ EstIdle /\ HandlerIdle

Parse ==
    /\ ppc = "input"
    /\ start_found' = Scan(raw_response).start_found
    /\ parsed' = parse_ai_recommendations(raw_response)
    /\ ppc' = "parsed"
    /\ UNCHANGED <<raw_response, reparsed>>
    /\ UNCHANGED <<evars, hvars>>

Reparse ==
    /\ ppc = "parsed"
    /\ reparsed' = parse_ai_recommendations(parsed)
    /\ ppc' = "reparsed"
    /\ UNCHANGED <<raw_response, start_found, parsed>>
    /\ UNCHANGED <<evars, hvars>>

NextParse == Parse \/ Reparse

SpecParse == InitParse /\ [][NextParse]_vars

(***************************************************************************)
(* The estimator called on a bounded set of argument lists.                *)
(***************************************************************************)
MaxCode == 4
MaxEvents == 2
MaxCalls == 2

\* salinities in hundredths of a ppt: -10, 0, 15.02, 17.14, 17.15, 30, 50
Salinities == {-1000, 0, 1502, 1714, 1715, 3000, 5000}
Codes == (-1)..MaxCode
Counts == (-1)..MaxEvents

InitEst ==
    /\ est_args \in [salinity : Salinities, farming_technique : Codes,
                     typhoon : Counts, flood : Counts]
    /\ production = -1
    /\ technique_name = ""
    /\ est_calls = 0
    /\ ParseIdle /\ HandlerIdle

Calculate ==
    /\ est_calls < MaxCalls
    /\ production' = calculate_oyster_production(est_args.salinity,
                         est_args.farming_technique, est_args.typhoon, est_args.flood)
    /\ technique_name' = get_farming_technique_name(est_args.farming_technique)
    /\ est_calls' = est_calls + 1
    /\ UNCHANGED est_args
    /\ UNCHANGED <<pvars, hvars>>

NextEst == Calculate

SpecEst == InitEst /\ [][NextEst]_vars

(***************************************************************************)
(* Properties of calculate_oyster_production.                               *)
(***************************************************************************)
\* C3: the estimator returns max(0, 0.268*salinity + 0.567*technique +
\* 0.436*typhoon + 0.223*flood - 4.595): never negative, the same on every
\* call, the raw technique code as multiplier also when its label is
\* "Unknown"; estimate(50, 3, 2, 1) = 11.601 and estimate(15.02, 1, 0, 0) = 0.
C3_Estimate ==
    est_calls > 0 =>
        LET lin == 268 * est_args.salinity + 56700 * est_args.farming_technique
                     + 43600 * est_args.typhoon + 22300 * est_args.flood - 459500
        IN  /\ production >= 0
            /\ production >= lin
            /\ production \in {0, lin}
            /\ (technique_name = "Unknown") <=> (est_args.farming_technique \notin {1, 2, 3})
            /\ (est_args = [salinity |-> 5000, farming_technique |-> 3,
                            typhoon |-> 2, flood |-> 1]) => production = 1160100
            /\ (est_args = [salinity |-> 1502, farming_technique |-> 1,
                            typhoon |-> 0, flood |-> 0]) => production = 0

\* C3 witness: a second call with a technique code outside {1,2,3}, whose
\* term 0.567*4 is what lifts the result above zero
C3_Witness ==
    /\ est_calls = 2
    /\ est_args.farming_technique = 4
    /\ technique_name = "Unknown"
    /\ production > 0
    /\ production < 56700 * 4

(***************************************************************************)
(* Properties of parse_ai_recommendations.                                 *)
(***************************************************************************)
InputLines == Split(raw_response)

HeaderLines == {i \in 1..Len(InputLines) : IsHeader(Strip(InputLines[i]))}

\* a header line, a bullet line or a blank line
Structural(line) ==
    \/ Strip(line) = <<>>
    \/ MatchBullet(Strip(line))
    \/ MatchBold(Strip(line))
    \/ MatchHash(Strip(line))

\* C6: when some line of the input is a header, the output is the lines from
\* the first header line onward that are header, bullet or blank lines, in
\* their order, joined by newlines and trimmed; nothing before the first
\* header is kept.  The documented example yields its three lines.
C6_RetainedLines ==
    (ppc # "input" /\ HeaderLines # {}) =>
        /\ parsed = Strip(Join(SelectSeq(
                        SubSeq(InputLines, Min(HeaderLines), Len(InputLines)),
                        Structural)))
        /\ (raw_response = ExampleInput => parsed = ExampleOutput)

\* C6 witness: a text with a narrative line before the first header and one
\* after it, both dropped, and a bullet kept
C6_Witness ==
    /\ ppc = "parsed"
    /\ raw_response = ExampleInput
    /\ parsed = ExampleOutput
    /\ Len(Split(parsed)) = 3

\* C7: once the scan has found a header, parsing the output again yields the
\* output.
C7_Idempotent ==
    (ppc = "reparsed" /\ start_found) => reparsed = parsed

\* C7 witness: the second parse has run on an output that differs from the
\* input (lines were dropped) and holds a later header
C7_Witness ==
    /\ ppc = "reparsed"
    /\ start_found
    /\ parsed # raw_response
    /\ Cardinality(HeaderLines) >= 2
    /\ \E i \in 1..Len(InputLines) : ~Structural(InputLines[i])

NoBulletLine == \A i \in 1..Len(InputLines) : ~MatchBullet(Strip(InputLines[i]))

\* the header-like pattern occurs nowhere / first occurs at position i
NoPattern == \A i \in 1..Len(raw_response) : ~PatternAt(raw_response, i)
FirstPatternAt(i) ==
    /\ PatternAt(raw_response, i)
    /\ \A j \in 1..(i - 1) : ~PatternAt(raw_response, j)

AllWhitespace(s) == \A i \in 1..Len(s) : s[i] \in Whitespace

\* what the fallback returns when no line is a header
C8_FallbackResult ==
    /\ NoPattern => parsed = Strip(raw_response)
    /\ \A i \in 1..Len(raw_response) :
          FirstPatternAt(i) =>
              parsed = Strip(SubSeq(raw_response, i, Len(raw_response)))
    /\ (NoPattern /\ NoBulletLine) => parsed = Strip(raw_response)

\* C8 as stated: with no header line the result is the fallback's, and it
\* is empty only when the input is empty.
C8_Original ==
    (ppc # "input" /\ HeaderLines = {}) =>
        /\ C8_FallbackResult
        /\ (parsed = <<>> => raw_response = <<>>)

\* C8 as amended: with no header line the result is the fallback's, and it
\* is empty only when the input is empty or all whitespace.
C8_Fallback ==
    (ppc # "input" /\ HeaderLines = {}) =>
        /\ C8_FallbackResult
        /\ (parsed = <<>> <=> AllWhitespace(raw_response))

\* C8 witness: no header line, the pattern inside a line, text cut before it
C8_Witness ==
    /\ ppc = "parsed"
    /\ HeaderLines = {}
    /\ ~NoPattern
    /\ parsed # Strip(raw_response)
    /\ parsed # <<>>

\* a line wrapped in one bold marker pair: no further marker inside
WrappedInOnePair(s) ==
    /\ Len(s) >= 4
    /\ s[1] = "*" /\ s[2] = "*"
    /\ s[Len(s) - 1] = "*" /\ s[Len(s)] = "*"
    /\ \A i \in 3..(Len(s) - 3) : ~(s[i] = "*" /\ s[i + 1] = "*")

DocumentedHeader(s) == WrappedInOnePair(s) \/ MatchHash(s)

\* C9: a line is classified as a header, and sets start_found, exactly when
\* its trimmed form is wrapped in one bold marker pair with nothing else on
\* the line or begins with "#"s followed by whitespace.
C9_HeaderClassification ==
    ppc # "input" =>
        (start_found <=>
            \E i \in 1..Len(InputLines) : DocumentedHeader(Strip(InputLines[i])))

(***************************************************************************)
(* Properties of predict and get_ai_recommendations.                       *)
(***************************************************************************)
Steps(t) == {calls[t][i] : i \in 1..Len(calls[t])}

\* the body is absent or is the object {}
BodyIsEmpty(d) == d.json = "none" \/ \A key \in Keys : d[key].k = "absent"

\* a required field is absent from the body or null in it
FieldMissing(d) == \E key \in Required : d[key].k \in {"absent", "null"}

MissingFields400 == ErrorResponse(400, <<"Missing required fields">>)
NoData400 == ErrorResponse(400, <<"No data provided">>)

\* C1: a request with a non-empty body is answered 400 "Missing required
\* fields" exactly when a required field is absent or null (a field that is
\* 0 is present), and then neither the estimator nor the provider has run.
C1_MissingFields ==
    \A t \in Threads :
        (pc[t] = "done" /\ ~BodyIsEmpty(data[t])) =>
            /\ (response[t] = MissingFields400) <=> FieldMissing(data[t])
            /\ FieldMissing(data[t]) =>
                  /\ "estimate" \notin Steps(t)
                  /\ "provider" \notin Steps(t)
                  /\ predicted_production[t] = -1
                  /\ recommendations[t] = Unset

\* C1 witness: flood is absent, the other fields are present and salinity
\* and typhoon are 0; the request was rejected
C1_Witness ==
    \E t \in Threads :
        /\ pc[t] = "done"
        /\ data[t].flood = Absent
        /\ data[t].salinity = Num(0) /\ data[t].typhoon = Num(0)
        /\ data[t].farming_technique = Num(300)
        /\ response[t] = MissingFields400

\* C5: the answer 400 "No data provided" is given exactly when the body is
\* absent or is {}; a non-empty body that lacks a required field gets
\* "Missing required fields".
C5_NoData ==
    \A t \in Threads :
        pc[t] = "done" =>
            /\ (response[t] = NoData400) <=> BodyIsEmpty(data[t])
            /\ (~BodyIsEmpty(data[t]) /\ FieldMissing(data[t])) =>
                  response[t] = MissingFields400

\* C5 witness: the body {} was answered "No data provided"
C5_Witness ==
    \E t \in Threads :
        /\ pc[t] = "done"
        /\ data[t].json = "object"
        /\ \A key \in Keys : data[t][key] = Absent
        /\ response[t] = NoData400

\* the estimate for a body whose fields convert
EstimateOf(d) ==
    LET a == CoerceArgs(d)
        lin == 268 * a.salinity + 56700 * a.farming_technique
                 + 43600 * a.typhoon + 22300 * a.flood - 459500
    IN  IF lin > 0 THEN lin ELSE 0

\* C2: a failure while getting the client, calling the provider or reading
\* its answer stays inside get_ai_recommendations, which returns "Error
\* generating recommendations: <message>"; predict answers 200 with
\* success, that string, and the estimate computed from the inputs.
C2_FailSoft ==
    \A t \in Threads :
        /\ (pc[t] \in {"respond", "done"} /\ exc[t] # <<>>) =>
              recommendations[t] = <<"Error generating recommendations: ">> \o exc[t]
        /\ (pc[t] = "done" /\ exc[t] # <<>>) =>
              /\ response[t].status = 200
              /\ response[t].success
              /\ response[t].recommendations =
                     <<"Error generating recommendations: ">> \o exc[t]
        /\ (pc[t] = "done" /\ response[t].status = 200) =>
              response[t].predicted_production = EstimateOf(data[t])

\* C2 witness: the provider call timed out for the inputs (50, 3, 2, 1) and
\* the response is a success carrying 11.601
C2_Witness ==
    \E t \in Threads :
        /\ pc[t] = "done"
        /\ exc[t] = <<"Request timed out.">>
        /\ "provider" \in Steps(t)
        /\ response[t].status = 200
        /\ response[t].predicted_production = 1160100

Rank(step) ==
    CASE step = "validate" -> 1
      [] step = "estimate" -> 2
      [] step = "recommend" -> 3
      [] step = "provider" -> 4
      [] step = "respond" -> 5

\* a field that is present and that float (salinity) or int (the others)
\* cannot read
Unreadable(d, key) ==
    /\ d[key].k = "str"
    /\ IF key = "salinity" THEN d[key].s \notin {"2", "1.5"} ELSE d[key].s # "2"

ConversionMessage(d, key) ==
    IF key = "salinity"
    THEN <<"could not convert string to float: '", d[key].s, "'">>
    ELSE <<"invalid literal for int() with base 10: '", d[key].s, "'">>

C10_SingleClient ==
    /\ constructed <= 1
    /\ \A t1, t2 \in Threads :
          (client[t1] # 0 /\ client[t2] # 0) => client[t1] = client[t2]

=============================================================================
